---- MODULE Spec2Model ----
(***************************************************************************)
(* A model of the daccia content platform: the style profile and its      *)
(* analyzer (style/profile.py, style/analyzer.py), the retrying model     *)
(* client (llm/client.py), conversations and the refiner, the content     *)
(* parsers, and the commands of cli.py: batch, research, publish, the     *)
(* blog regeneration and the API key check.                               *)
(*                                                                         *)
(* Confidences are kept in hundredths (0.15 is 15, 1.0 is 100): the float *)
(* sums 0.15, 0.3, 0.45-, 0.6, 0.75, 0.9, 1.0 compare with the thresholds *)
(* 0.2 and 0.3 exactly as 15, 30, 45, 60, 75, 90, 100 compare with 20 and *)
(* 30.                                                                     *)
(***************************************************************************)
EXTENDS Integers, Sequences, FiniteSets, TLC

VARIABLES
    profile,      \* the StyleProfile object the analyzer mutates
    clock,        \* datetime.now(), advanced by every analyze_edit call
    lastReply,    \* the model's reply to the last analyze_edit call
    parsedCalls,  \* history: calls whose reply was a JSON object
    raisedOut,    \* history: an exception left the last analyze_edit call
    files,        \* the profile directory: user id -> file content
    requested,    \* the user id the current profile was loaded for
    lastOp,       \* the last operation on the profile store
    loadError,    \* the exception the last load raised, or "none"
    pureProfile,  \* the input of the pure functions of a profile
    fragment,     \* the value to_prompt_fragment returned
    cPc,          \* where ClaudeClient.generate is
    attemptNumber,\* tenacity's attempt_number of the running call
    outcomes,     \* history: what each attempt of the running call met
    cResult,      \* what the last generate call delivered to its caller
    waits,        \* the sleeps of the running call, in order
    totalIn,      \* ClaudeClient._total_input_tokens
    totalOut,     \* ClaudeClient._total_output_tokens
    calls,        \* generate calls started
    sPc,          \* where the generate_streaming call and its consumer stand
    sEnters,      \* times messages.stream was entered for the current call
    sYielded,     \* fragments the consumer has received from the current call
    sResult,      \* what reached the consumer of the current call
    sCalls,       \* generate_streaming calls made
    messages,     \* Conversation.messages
    sent,         \* the history handed to the model by the last send
    sendResult,   \* how the last send ended
    sends,        \* send calls made
    returnedSends, \* send calls that returned a reply
    conversation, \* ContentRefiner._conversation is set
    started,      \* the last start_refinement returned
    refineCalls,  \* refine calls made since the refiner was built
    returnedRefines, \* refine calls that returned since the last start_refinement
    modelCalls,   \* calls the refiner's conversation made to the model
    refinerResult, \* how the refiner's last call ended
    temperature,  \* what suggest_temperature did with pureProfile
    response,     \* the model's reply handed to a generator
    article,      \* what ArticleGenerator.generate made of the reply
    stream,       \* what StreamGenerator.generate made of the reply
    rawLines,     \* the lines of the topics file
    batchInput,   \* batch's options and what it finds when it sets up
    topics,       \* the topics batch parsed from the lines
    bPc,          \* where batch stands
    attempted,    \* the topics batch has attempted, in order
    succeeded,    \* batch's succeeded counter
    failed,       \* batch's failed list
    draftFiles,   \* positions of the topics whose markdown draft is on disk
    records,      \* positions of the topics whose ContentRecord is committed
    rPc,          \* where the research command is
    fetched,      \* the articles research fetched from the feeds
    analyses,     \* research's list of the analyses analyze returned
    proposals,    \* what propose gave research
    researchResult, \* the reply and the outcome of the last analyze or propose call
    invocation,   \* the command the CLI was started with, and what it finds
    position,     \* the step of the command's body that runs next
    termination,  \* how the command ended, "running" while it has not
    requests,     \* the network requests the command has made, in order
    db,           \* the committed ContentRecord rows, by id
    session,      \* the rows as publish's open session holds them
    pPc,          \* where publish is
    selected,     \* the ids publish was told to publish, in order
    handled,      \* how many of the selected articles the loop has taken up
    medium_client, \* whether publish holds a Medium client
    accepted,     \* the posts Medium accepted during the run: id and URL
    published_count, \* publish's published_count
    html,         \* index.html
    blogResult    \* what the last _regenerate_blog call did

styleVars == <<profile, clock, lastReply, parsedCalls, raisedOut>>
storeVars == <<files, requested, lastOp, loadError>>
pureVars == <<pureProfile, fragment, temperature>>
clientVars == <<cPc, attemptNumber, outcomes, cResult, waits, totalIn, totalOut, calls>>
streamVars == <<sPc, sEnters, sYielded, sResult, sCalls>>
convVars == <<messages, sent, sendResult, sends, returnedSends>>
refinerVars == <<conversation, started, refineCalls, returnedRefines, modelCalls, refinerResult>>
parseVars == <<response, article, stream>>
batchVars == <<rawLines, batchInput, topics, bPc, attempted, succeeded, failed, draftFiles, records>>
researchVars == <<rPc, fetched, analyses, proposals, researchResult>>
commandVars == <<invocation, position, termination, requests>>
publishVars == <<db, session, pPc, selected, handled, medium_client, accepted, published_count>>
blogVars == <<html, blogResult>>
finalVars == <<researchVars, commandVars, publishVars, blogVars>>
laterVars == <<streamVars, convVars, refinerVars, parseVars, batchVars, finalVars>>
vars == <<styleVars, storeVars, pureVars, clientVars, laterVars>>

----------------------------------------------------------------------------
(* Bounds of the model *)

MaxEdits == 7
MaxStoreEdits == 2
MaxCalls == 2

----------------------------------------------------------------------------
(* Python values as they come out of json.loads *)

Str(s) == [t |-> "str", v |-> s]
Num(s) == [t |-> "num", v |-> s]
Null == [t |-> "null", v |-> ""]
Absent == [t |-> "absent", v |-> ""]

Min(a, b) == IF a <= b THEN a ELSE b

----------------------------------------------------------------------------
(* style/profile.py *)

DimOrder ==
    <<"sentence_length", "formality", "jargon_level", "structure",
      "opening_style", "closing_style", "humor", "personal_anecdotes">>

DimKeys == {DimOrder[i] : i \in 1..Len(DimOrder)}

DefaultValue(k) ==
    CASE k = "sentence_length" -> "balanced"
      [] k = "formality" -> "professional but accessible"
      [] k = "jargon_level" -> "moderate -- explains terms when first used"
      [] k = "structure" -> "mixed"
      [] OTHER -> "not yet determined"

StyleDimension(k) == [value |-> Str(DefaultValue(k)), confidence |-> 0, examples |-> <<>>]

\* StyleProfile.default(): user_id takes the field default, whatever was asked for
Default(now) ==
    [user_id |-> "default",
     dimensions |-> [k \in DimKeys |-> StyleDimension(k)],
     edit_count |-> 0,
     last_updated |-> now]

----------------------------------------------------------------------------
(* The replies of the model to analyze_edit's request. A reply is the text *)
(* the client returned; kind says what json.loads makes of it, keys which  *)
(* dimension keys Python's `in` finds in the parsed value (the keys of an  *)
(* object, the elements of a list, the substrings of a string), entries    *)
(* the values of an object's keys.                                         *)

DictEntry(pref, ex) == [t |-> "dict", pref |-> pref, ex |-> ex]
OtherEntry(t) == [t |-> t, pref |-> Absent, ex |-> Absent]
NoEntries == [k \in {} |-> OtherEntry("null")]

Reply(kind, keys, entries) == [kind |-> kind, keys |-> keys, entries |-> entries]

NonJson == Reply("nonjson", {}, NoEntries)
JsonNull == Reply("null", {}, NoEntries)
JsonBool == Reply("bool", {}, NoEntries)
JsonNumber == Reply("num", {}, NoEntries)
JsonString == Reply("str", {}, NoEntries)
JsonStringNamingHumor == Reply("str", {"humor"}, NoEntries)
JsonEmptyList == Reply("list", {}, NoEntries)
JsonListOfFormality == Reply("list", {"formality"}, NoEntries)
EmptyObject == Reply("obj", {}, NoEntries)

Object(entries) == Reply("obj", DOMAIN entries, entries)

CasualWithExample ==
    Object([k \in {"formality"} |->
        DictEntry(Str("casual and direct"), Str("Look, here's the thing..."))])
FormalNoExample ==
    Object([k \in {"formality"} |-> DictEntry(Str("formal and academic"), Absent)])
ExampleOnly ==
    Object([k \in {"formality"} |-> DictEntry(Absent, Str("The AI flagged it."))])
FormalityAsText == Object([k \in {"formality"} |-> OtherEntry("str")])
NumberPreference ==
    Object([k \in {"formality"} |-> DictEntry(Num("42"), Absent)])
NullPreferenceNumberExample ==
    Object([k \in {"humor"} |-> DictEntry(Null, Num("5"))])
TwoDimensions ==
    Object([k \in {"sentence_length", "formality"} |->
        IF k = "sentence_length"
        THEN DictEntry(Str("short and punchy, under 12 words"),
                       Str("The AI flagged it. She acted."))
        ELSE DictEntry(Str("conversational, like talking to a colleague"),
                       Str("Look, here's the thing..."))])
UnknownKey == Object([k \in {"tone"} |-> DictEntry(Str("warm"), Str("Hi!"))])

MalformedReplies ==
    {NonJson, JsonNull, JsonBool, JsonNumber, JsonString, JsonStringNamingHumor,
     JsonEmptyList, JsonListOfFormality}

ObjectReplies ==
    {EmptyObject, CasualWithExample, FormalNoExample, ExampleOnly, FormalityAsText,
     NumberPreference, NullPreferenceNumberExample, TwoDimensions, UnknownKey}

Replies == MalformedReplies \cup ObjectReplies

----------------------------------------------------------------------------
(* style/analyzer.py *)

ConfidenceStep == 15
ConfidenceCap == 100
KeepExamples == 5

\* json.loads(response)
JsonLoads(reply) ==
    IF reply.kind = "nonjson"
    THEN [exc |-> "JSONDecodeError", val |-> reply]
    ELSE [exc |-> "none", val |-> reply]

\* seq[:n], the slice that keeps the oldest
FirstN(seq, n) ==
    IF Len(seq) <= n THEN seq ELSE SubSeq(seq, 1, n)

\* seq[-n:]
LastN(seq, n) ==
    IF Len(seq) <= n THEN seq ELSE SubSeq(seq, Len(seq) - n + 1, Len(seq))

\* the update without the cap on the confidence
UpdateDimensionUncapped(dim, entry) ==
    [value |-> IF entry.pref = Absent THEN dim.value ELSE entry.pref,
     confidence |-> dim.confidence + ConfidenceStep,
     examples |->
        IF entry.ex = Absent
        THEN dim.examples
        ELSE LastN(Append(dim.examples, entry.ex), KeepExamples)]

\* the body of `if isinstance(entry, dict):`
UpdateDimension(dim, entry) ==
    [value |-> IF entry.pref = Absent THEN dim.value ELSE entry.pref,
     confidence |-> Min(ConfidenceCap, dim.confidence + ConfidenceStep),
     examples |->
        IF entry.ex = Absent
        THEN dim.examples
        ELSE LastN(Append(dim.examples, entry.ex), KeepExamples)]

\* the loop with the `if dim_key in analysis:` test left out: a dimension the
\* reply does not name is updated from an empty entry
RECURSIVE UpdateDimensionsWithoutKeyTest(_, _, _)
UpdateDimensionsWithoutKeyTest(dims, analysis, i) ==
    IF i > Len(DimOrder) THEN [dims |-> dims, exc |-> "none"]
    ELSE
        LET k == DimOrder[i] IN
        IF analysis.kind # "obj"
        THEN [dims |-> dims, exc |-> "TypeError"]
        ELSE IF k \notin analysis.keys
        THEN UpdateDimensionsWithoutKeyTest(
                [dims EXCEPT ![k] = UpdateDimension(@, DictEntry(Absent, Absent))],
                analysis, i + 1)
        ELSE IF analysis.entries[k].t = "dict"
        THEN UpdateDimensionsWithoutKeyTest(
                [dims EXCEPT ![k] = UpdateDimension(@, analysis.entries[k])],
                analysis, i + 1)
        ELSE UpdateDimensionsWithoutKeyTest(dims, analysis, i + 1)

\* the loop over profile.dimensions.items(), from the i-th dimension on:
\* the dimensions as the loop leaves them and the exception that ended it
RECURSIVE UpdateDimensions(_, _, _)
UpdateDimensions(dims, analysis, i) ==
    IF i > Len(DimOrder) THEN [dims |-> dims, exc |-> "none"]
    ELSE
        LET k == DimOrder[i] IN
        IF analysis.kind \in {"null", "bool", "num"}
        THEN [dims |-> dims, exc |-> "TypeError"]       \* `in` on a non-container
        ELSE IF k \notin analysis.keys
        THEN UpdateDimensions(dims, analysis, i + 1)
        ELSE IF analysis.kind # "obj"
        THEN [dims |-> dims, exc |-> "TypeError"]       \* analysis[dim_key] on list, str
        ELSE IF analysis.entries[k].t = "dict"
        THEN UpdateDimensions(
                [dims EXCEPT ![k] = UpdateDimension(@, analysis.entries[k])],
                analysis, i + 1)
        ELSE UpdateDimensions(dims, analysis, i + 1)

\* the exceptions `except (json.JSONDecodeError, KeyError, TypeError)` catches
Caught == {"JSONDecodeError", "KeyError", "TypeError"}

\* StyleAnalyzer.analyze_edit from the reply on: the profile it returns and
\* the exception that leaves it
AnalyzeEdit(p, reply, now) ==
    LET parsed == JsonLoads(reply)
        looped == IF parsed.exc = "none"
                  THEN UpdateDimensions(p.dimensions, parsed.val, 1)
                  ELSE [dims |-> p.dimensions, exc |-> parsed.exc]
    IN  IF looped.exc = "none"
        THEN [profile |-> [p EXCEPT !.dimensions = looped.dims,
                                    !.edit_count = @ + 1,
                                    !.last_updated = now],
              exc |-> "none"]
        ELSE [profile |-> [p EXCEPT !.dimensions = looped.dims],
              exc |-> IF looped.exc \in Caught THEN "none" ELSE looped.exc]

\* to_prompt_fragment: the lines joined by "\n"; no line at all is the empty text
ConfidenceThreshold == 20

\* the test with >= for >
EmitsAtThreshold(dim) == dim.confidence >= ConfidenceThreshold

\* `if dim.confidence > 0.2:`
Emits(dim) == dim.confidence > ConfidenceThreshold

RECURSIVE DimensionLines(_, _)
DimensionLines(p, i) ==
    IF i > Len(DimOrder) THEN <<>>
    ELSE
        LET k == DimOrder[i]
            dim == p.dimensions[k]
            own == IF Emits(dim)
                   THEN <<[line |-> "dimension", key |-> k, text |-> dim.value]>>
                        \o (IF dim.examples # <<>>
                            THEN <<[line |-> "example", key |-> k,
                                    text |-> dim.examples[Len(dim.examples)]]>>
                            ELSE <<>>)
                   ELSE <<>>
        IN  own \o DimensionLines(p, i + 1)

Header == [line |-> "header", key |-> "", text |-> Str("AUTHOR STYLE PREFERENCES")]

ToPromptFragment(p) ==
    IF p.edit_count = 0 THEN <<>> ELSE <<Header>> \o DimensionLines(p, 1)

----------------------------------------------------------------------------
(* save and load, style/profile.py. The file holds the JSON document that  *)
(* model_dump_json writes: every field as the JSON value of what the       *)
(* object holds, of the declared type or not. model_validate_json accepts  *)
(* the document when every field has its declared type: value a string,    *)
(* examples a list of strings.                                             *)

Users == {"default", "alice"}
NoFile == [exists |-> FALSE]

ModelDumpJson(p) ==
    [exists |-> TRUE,
     user_id |-> p.user_id,
     edit_count |-> p.edit_count,
     last_updated |-> p.last_updated,
     dimensions |-> [k \in DOMAIN p.dimensions |->
        [value |-> p.dimensions[k].value,
         confidence |-> p.dimensions[k].confidence,
         examples |-> p.dimensions[k].examples]]]

ValidDimension(d) ==
    /\ d.value.t = "str"
    /\ \A i \in 1..Len(d.examples) : d.examples[i].t = "str"

ModelValidateJson(doc) ==
    IF \A k \in DOMAIN doc.dimensions : ValidDimension(doc.dimensions[k])
    THEN [exc |-> "none",
          profile |-> [user_id |-> doc.user_id,
                       dimensions |-> [k \in DOMAIN doc.dimensions |->
                            [value |-> doc.dimensions[k].value,
                             confidence |-> doc.dimensions[k].confidence,
                             examples |-> doc.dimensions[k].examples]],
                       edit_count |-> doc.edit_count,
                       last_updated |-> doc.last_updated]]
    ELSE [exc |-> "ValidationError", profile |-> Default(0)]

\* the path save writes: the file of the profile's own user_id
SavePath(p) == p.user_id

\* StyleProfile.load(directory, user_id)
LoadProfile(dir, user_id, now) ==
    IF dir[user_id].exists
    THEN ModelValidateJson(dir[user_id])
    ELSE [exc |-> "none", profile |-> Default(now)]

----------------------------------------------------------------------------
(* The inputs of the pure functions of a profile *)

PureProfiles ==
    { [Default(0) EXCEPT
          !.edit_count = n,
          !.dimensions["formality"] =
              [value |-> v, confidence |-> c, examples |-> ex],
          !.dimensions["humor"].confidence = h] :
        n \in {0, 1, 5},
        v \in {Str("casual and direct"), Str("formal and academic"), Str("Formal"),
               Str("ACADEMIC"), Str("informal"), Str("Casual"),
               Str("conversational"), Str("casual, formal"), Str("balanced"),
               Num("42")},
        c \in {0, 15, 20, 21, 30, 31, 50, 100},
        ex \in {<<>>, <<Str("one")>>, <<Str("one"), Str("two")>>},
        h \in {0, 20, 45} }

NotCalled == [done |-> FALSE, lines |-> <<>>]

----------------------------------------------------------------------------
(* The states after construction *)

NoReply == Reply("none", {}, NoEntries)

StyleInit ==
    /\ profile = Default(0)
    /\ clock = 0
    /\ lastReply = NoReply
    /\ parsedCalls = 0
    /\ raisedOut = FALSE

StoreInit ==
    /\ files = [u \in Users |-> NoFile]
    /\ requested = "default"
    /\ lastOp = "none"
    /\ loadError = "none"

PureInit ==
    /\ pureProfile = Default(0)
    /\ fragment = NotCalled
    /\ temperature = [done |-> FALSE, exc |-> "none", value |-> 0]

----------------------------------------------------------------------------
(* The operations on a profile *)

\* analyzer.analyze_edit(original, edited, profile) when the client returns reply
AnalyzeEditCall(reply) ==
    LET r == AnalyzeEdit(profile, reply, clock + 1) IN
    /\ profile' = r.profile
    /\ clock' = clock + 1
    /\ lastReply' = reply
    /\ parsedCalls' = parsedCalls + (IF reply.kind = "obj" THEN 1 ELSE 0)
    /\ raisedOut' = (r.exc # "none")
    /\ lastOp' = "analyze"
    /\ UNCHANGED <<files, requested, loadError, pureVars, clientVars, laterVars>>

\* analyze_edit when client.generate raises: the error leaves analyze_edit
\* before the profile is touched
AnalyzeEditClientError ==
    /\ clock' = clock + 1
    /\ lastReply' = NoReply
    /\ raisedOut' = TRUE
    /\ lastOp' = "analyze"
    /\ UNCHANGED <<profile, parsedCalls, files, requested, loadError, pureVars, clientVars, laterVars>>

\* profile.save(directory)
Save ==
    /\ files' = [files EXCEPT ![SavePath(profile)] = ModelDumpJson(profile)]
    /\ lastOp' = "save"
    /\ UNCHANGED <<styleVars, requested, loadError, pureVars, clientVars, laterVars>>

\* profile = StyleProfile.load(directory, user_id)
Load(user_id) ==
    LET r == LoadProfile(files, user_id, clock) IN
    /\ loadError' = r.exc
    /\ IF r.exc = "none"
       THEN /\ profile' = r.profile
            /\ requested' = user_id
            /\ lastOp' = IF files[user_id].exists THEN "load" ELSE "load_missing"
       ELSE /\ lastOp' = "load_failed"
            /\ UNCHANGED <<profile, requested>>
    /\ UNCHANGED <<clock, lastReply, parsedCalls, raisedOut, files, pureVars, clientVars, laterVars>>

\* profile.to_prompt_fragment()
ToPromptFragmentCall ==
    /\ ~fragment.done
    /\ fragment' = [done |-> TRUE, lines |-> ToPromptFragment(pureProfile)]
    /\ UNCHANGED <<pureProfile, temperature, styleVars, storeVars, clientVars, laterVars>>

----------------------------------------------------------------------------
(* llm/client.py: ClaudeClient.generate under tenacity's @retry *)

\* what self._client.messages.create raises
ApiError(cls, auth, isStatus, status) ==
    [cls |-> cls, auth |-> auth, isStatus |-> isStatus, status |-> status]

NoError == ApiError("none", FALSE, FALSE, 0)
AuthenticationError == ApiError("AuthenticationError", TRUE, TRUE, 401)
BadRequestError == ApiError("BadRequestError", FALSE, TRUE, 400)
PermissionDeniedError == ApiError("PermissionDeniedError", FALSE, TRUE, 403)
NotFoundError == ApiError("NotFoundError", FALSE, TRUE, 404)
RateLimitError == ApiError("RateLimitError", FALSE, TRUE, 429)
InternalServerError == ApiError("InternalServerError", FALSE, TRUE, 500)
OverloadedError == ApiError("APIStatusError", FALSE, TRUE, 529)
\* APIStatusError with a status at the edges of the 4xx and 5xx ranges
LastClientStatus == ApiError("APIStatusError", FALSE, TRUE, 499)
LastServerStatus == ApiError("APIStatusError", FALSE, TRUE, 599)
APITimeoutError == ApiError("APITimeoutError", FALSE, FALSE, 0)
APIConnectionError == ApiError("APIConnectionError", FALSE, FALSE, 0)
\* response.content[0] of a response whose content list is empty
IndexError == ApiError("IndexError", FALSE, FALSE, 0)

ApiErrors ==
    {AuthenticationError, BadRequestError, PermissionDeniedError, NotFoundError,
     RateLimitError, InternalServerError, OverloadedError, LastClientStatus,
     LastServerStatus, APITimeoutError, APIConnectionError}

\* what one call of messages.create does: raise, or return a response with
\* its usage and its content blocks
Raises(e) == [ok |-> FALSE, exc |-> e, input |-> 0, output |-> 0, blocks |-> 0]
Responds(i, o, n) == [ok |-> TRUE, exc |-> NoError, input |-> i, output |-> o, blocks |-> n]

CreateOutcomes ==
    {Raises(e) : e \in ApiErrors} \cup {Responds(1, 2, 1), Responds(2, 1, 1), Responds(1, 1, 0)}

\* the classification without the exception made for 429
_is_retryable_no_429(exc) ==
    IF exc.auth THEN FALSE
    ELSE IF exc.isStatus /\ exc.status < 500 THEN FALSE
    ELSE TRUE

_is_retryable(exc) ==
    IF exc.auth THEN FALSE
    ELSE IF exc.isStatus /\ exc.status < 500 THEN exc.status = 429
    ELSE TRUE

\* stop=stop_after_attempt(3)
StopAfterAttempt == 3
\* wait=wait_exponential(multiplier=1, min=2, max=30)
WaitMultiplier == 1
WaitMin == 2
WaitMax == 30

Max(a, b) == IF a >= b THEN a ELSE b

\* tenacity: max(max(0, min), min(multiplier * 2 ** (attempt_number - 1), max))
WaitExponential(attempt_number) ==
    Max(Max(0, WaitMin), Min(WaitMultiplier * 2 ^ (attempt_number - 1), WaitMax))

\* the body of generate with the counters fed only once the text is in hand
GenerateBodyCountsReturnedOnly(o) ==
    IF ~o.ok THEN [exc |-> o.exc, input |-> 0, output |-> 0]
    ELSE IF o.blocks = 0 THEN [exc |-> IndexError, input |-> 0, output |-> 0]
    ELSE [exc |-> NoError, input |-> o.input, output |-> o.output]

\* the body of generate, run once: the tokens it adds and how it ends
GenerateBody(o) ==
    IF ~o.ok THEN [exc |-> o.exc, input |-> 0, output |-> 0]
    ELSE IF o.blocks = 0 THEN [exc |-> IndexError, input |-> o.input, output |-> o.output]
    ELSE [exc |-> NoError, input |-> o.input, output |-> o.output]

\* the stop test off by one: a fourth attempt before giving up
AfterFailureOneMore(exc, attempt_number) ==
    IF ~_is_retryable(exc) THEN "reraise"
    ELSE IF attempt_number > StopAfterAttempt THEN "retry_error"
    ELSE "sleep"

\* what tenacity does with an attempt that raised exc
AfterFailure(exc, attempt_number) ==
    IF ~_is_retryable(exc) THEN "reraise"
    ELSE IF attempt_number >= StopAfterAttempt THEN "retry_error"
    ELSE "sleep"

Delivered(kind, cls, cause) == [kind |-> kind, cls |-> cls, cause |-> cause]
Nothing == Delivered("none", "none", NoError)

\* what the caller gets when tenacity gives up after an attempt raising exc
GiveUp(exc) == Delivered("error", "RetryError", exc)

ClientInit ==
    /\ cPc = "idle"
    /\ attemptNumber = 0
    /\ outcomes = <<>>
    /\ cResult = Nothing
    /\ waits = <<>>
    /\ totalIn = 0
    /\ totalOut = 0
    /\ calls = 0

\* a caller calls client.generate(...)
GenerateStart ==
    /\ cPc \in {"idle", "returned", "raised"}
    /\ calls < MaxCalls
    /\ cPc' = "attempt"
    /\ attemptNumber' = 1
    /\ outcomes' = <<>>
    /\ waits' = <<>>
    /\ cResult' = Nothing
    /\ calls' = calls + 1
    /\ UNCHANGED <<totalIn, totalOut, styleVars, storeVars, pureVars, laterVars>>

\* one attempt: the body of generate runs, and tenacity decides what follows
Attempt(o) ==
    LET b == GenerateBody(o)
        next == AfterFailure(b.exc, attemptNumber)
    IN
    /\ cPc = "attempt"
    /\ outcomes' = Append(outcomes, o)
    /\ totalIn' = totalIn + b.input
    /\ totalOut' = totalOut + b.output
    /\ IF b.exc = NoError
       THEN /\ cPc' = "returned"
            /\ cResult' = Delivered("text", "str", NoError)
       ELSE IF next = "reraise"
       THEN /\ cPc' = "raised"
            /\ cResult' = Delivered("error", b.exc.cls, b.exc)
       ELSE IF next = "retry_error"
       THEN /\ cPc' = "raised"
            /\ cResult' = GiveUp(b.exc)
       ELSE /\ cPc' = "sleep"
            /\ cResult' = Nothing
    /\ UNCHANGED <<attemptNumber, waits, calls, styleVars, storeVars, pureVars, laterVars>>

\* tenacity sleeps, then starts the next attempt
Sleep ==
    /\ cPc = "sleep"
    /\ waits' = Append(waits, WaitExponential(attemptNumber))
    /\ attemptNumber' = attemptNumber + 1
    /\ cPc' = "attempt"
    /\ UNCHANGED <<outcomes, cResult, totalIn, totalOut, calls, styleVars, storeVars, pureVars, laterVars>>

----------------------------------------------------------------------------
(* llm/client.py: generate_streaming under the same decorator, and the
   consumer that iterates what it returns *)

MaxStreams == 2
MaxChunks == 3

\* what entering messages.stream(...) does: raise, or open the stream
StreamOutcomes == {Raises(e) : e \in ApiErrors} \cup {Responds(0, 0, 1)}

StreamInit ==
    /\ sPc = "idle"
    /\ sEnters = 0
    /\ sYielded = 0
    /\ sResult = Nothing
    /\ sCalls = 0

\* client.generate_streaming(...): the function has a yield in its body, so
\* the call tenacity decorates builds a generator, runs none of the body and
\* raises nothing; tenacity returns the generator as the result of attempt 1
GenerateStreamingCall ==
    /\ sPc \in {"idle", "exhausted", "refused", "broken"}
    /\ sCalls < MaxStreams
    /\ sCalls' = sCalls + 1
    /\ sEnters' = 0
    /\ sYielded' = 0
    /\ sPc' = "generator"
    /\ sResult' = Nothing
    /\ UNCHANGED <<finalVars, styleVars, storeVars, pureVars, clientVars, convVars,
                   refinerVars, parseVars, batchVars>>

\* the consumer's first next(): the body starts and enters messages.stream;
\* what it raises is raised in the consumer, tenacity having returned already
StreamEnter(o) ==
    /\ sPc = "generator"
    /\ sEnters' = sEnters + 1
    /\ IF o.ok
       THEN /\ sPc' = "streaming"
            /\ UNCHANGED sResult
       ELSE /\ sPc' = "refused"
            /\ sResult' = Delivered("raised", o.exc.cls, o.exc)
    /\ UNCHANGED <<sYielded, sCalls, finalVars, styleVars, storeVars, pureVars, clientVars,
                   convVars, refinerVars, parseVars, batchVars>>

\* for text in stream.text_stream: yield text
StreamYield ==
    /\ sPc = "streaming"
    /\ sYielded < MaxChunks
    /\ sYielded' = sYielded + 1
    /\ UNCHANGED <<sPc, sEnters, sResult, sCalls, finalVars, styleVars, storeVars, pureVars,
                   clientVars, convVars, refinerVars, parseVars, batchVars>>

\* the stream breaks while it is being read
StreamBreak(e) ==
    /\ sPc = "streaming"
    /\ sPc' = "broken"
    /\ sResult' = Delivered("raised", e.cls, e)
    /\ UNCHANGED <<sEnters, sYielded, sCalls, finalVars, styleVars, storeVars, pureVars,
                   clientVars, convVars, refinerVars, parseVars, batchVars>>

\* text_stream is exhausted and the generator returns
StreamEnd ==
    /\ sPc = "streaming"
    /\ sPc' = "exhausted"
    /\ sResult' = Delivered("returned", "none", NoError)
    /\ UNCHANGED <<sEnters, sYielded, sCalls, finalVars, styleVars, storeVars, pureVars,
                   clientVars, convVars, refinerVars, parseVars, batchVars>>

----------------------------------------------------------------------------
(* llm/conversation.py: Conversation *)

MaxSends == 4

Message(role, content) == [role |-> role, content |-> content]

\* message texts: a plain text, the article start_refinement sends, and the
\* feedback refine wraps when it is told not to ask questions
Plain(text) == [wrap |-> "none", text |-> text]
ArticleToRefine == [wrap |-> "article", text |-> "title and body"]
ApplyDirectly(text) == [wrap |-> "direct", text |-> text]

UserMessages == {Plain("first"), Plain("second")}

\* what the client's generate or generate_streaming gives send: the reply
\* text, or the exception the call ends with
Replied(text) == [ok |-> TRUE, text |-> Plain(text), exc |-> "none"]
Raised(cls) == [ok |-> FALSE, text |-> Plain(""), exc |-> cls]
ModelOutcomes == {Replied("reply"), Raised("RetryError"), Raised("AuthenticationError")}

\* Conversation.send: the user turn is appended, the model is called with
\* the whole list, and the reply is appended if the call returns
Send(msgs, user_message, o) ==
    LET withUser == Append(msgs, Message("user", user_message)) IN
    IF o.ok
    THEN [messages |-> Append(withUser, Message("assistant", o.text)),
          sent |-> withUser, exc |-> "none"]
    ELSE [messages |-> withUser, sent |-> withUser, exc |-> o.exc]

\* Conversation.turn_count
turn_count(msgs) == Len(msgs) \div 2

SendResult(op, exc, streamed) == [op |-> op, exc |-> exc, stream |-> streamed]

ConvInit ==
    /\ messages = <<>>
    /\ sent = <<>>
    /\ sendResult = SendResult("none", "none", FALSE)
    /\ sends = 0
    /\ returnedSends = 0

\* conversation.send(user_message, stream=streamed)
ConversationSend(user_message, streamed, o) ==
    /\ sends < MaxSends
    /\ LET r == Send(messages, user_message, o) IN
        /\ messages' = r.messages
        /\ sent' = r.sent
        /\ sendResult' = SendResult("send", r.exc, streamed)
        /\ returnedSends' = IF r.exc = "none" THEN returnedSends + 1 ELSE returnedSends
    /\ sends' = sends + 1
    /\ UNCHANGED <<finalVars, styleVars, storeVars, pureVars, clientVars, streamVars,
                   refinerVars, parseVars, batchVars>>

----------------------------------------------------------------------------
(* content/refiner.py: ContentRefiner *)

MaxRefines == 3

Feedbacks == {"shorter"}

\* refine with its guard left out
RefineGuardMissing(conv) == "none"

\* if not self._conversation: raise RuntimeError(...)
RefineGuard(conv) == IF ~conv THEN "RuntimeError" ELSE "none"

\* ContentRefiner.revision_count
revision_count(conv, msgs) ==
    IF ~conv THEN 0 ELSE Max(0, turn_count(msgs) - 1)

RefinerInit ==
    /\ conversation = FALSE
    /\ started = FALSE
    /\ refineCalls = 0
    /\ returnedRefines = 0
    /\ modelCalls = 0
    /\ refinerResult = SendResult("none", "none", FALSE)

\* refiner.start_refinement(content): a new Conversation replaces the old
\* one before the article is sent
StartRefinement(o) ==
    /\ sends < MaxSends
    /\ conversation' = TRUE
    /\ LET r == Send(<<>>, ArticleToRefine, o) IN
        /\ messages' = r.messages
        /\ sent' = r.sent
        /\ sendResult' = SendResult("send", r.exc, FALSE)
        /\ refinerResult' = SendResult("start_refinement", r.exc, FALSE)
        /\ returnedSends' = IF r.exc = "none" THEN returnedSends + 1 ELSE returnedSends
        /\ started' = (r.exc = "none")
    /\ sends' = sends + 1
    /\ modelCalls' = modelCalls + 1
    /\ returnedRefines' = 0
    /\ UNCHANGED <<refineCalls, finalVars, styleVars, storeVars, pureVars, clientVars,
                   streamVars, parseVars, batchVars>>

\* refiner.refine(feedback, socratic=socratic)
Refine(feedback, socratic, o) ==
    /\ refineCalls < MaxRefines
    /\ refineCalls' = refineCalls + 1
    /\ IF RefineGuard(conversation) # "none"
       THEN /\ refinerResult' = SendResult("refine", RefineGuard(conversation), FALSE)
            /\ UNCHANGED <<convVars, conversation, started, returnedRefines, modelCalls>>
       ELSE /\ sends < MaxSends
            /\ LET text == IF socratic THEN Plain(feedback) ELSE ApplyDirectly(feedback)
                   r == Send(messages, text, o) IN
                /\ messages' = r.messages
                /\ sent' = r.sent
                /\ sendResult' = SendResult("send", r.exc, FALSE)
                /\ refinerResult' = SendResult("refine", r.exc, FALSE)
                /\ returnedSends' = IF r.exc = "none" THEN returnedSends + 1 ELSE returnedSends
                /\ returnedRefines' = IF r.exc = "none" THEN returnedRefines + 1 ELSE returnedRefines
            /\ sends' = sends + 1
            /\ modelCalls' = modelCalls + 1
            /\ UNCHANGED <<conversation, started>>
    /\ UNCHANGED <<finalVars, styleVars, storeVars, pureVars, clientVars, streamVars,
                   parseVars, batchVars>>

----------------------------------------------------------------------------
(* style/applier.py: suggest_temperature *)

\* a text as the sequence of its characters
Chars(s) ==
    CASE s = "casual and direct" ->
           <<"c", "a", "s", "u", "a", "l", " ", "a", "n", "d", " ", "d", "i", "r", "e", "c", "t">>
      [] s = "formal and academic" ->
           <<"f", "o", "r", "m", "a", "l", " ", "a", "n", "d", " ", "a", "c", "a", "d", "e", "m", "i", "c">>
      [] s = "Formal" ->
           <<"F", "o", "r", "m", "a", "l">>
      [] s = "ACADEMIC" ->
           <<"A", "C", "A", "D", "E", "M", "I", "C">>
      [] s = "informal" ->
           <<"i", "n", "f", "o", "r", "m", "a", "l">>
      [] s = "Casual" ->
           <<"C", "a", "s", "u", "a", "l">>
      [] s = "conversational" ->
           <<"c", "o", "n", "v", "e", "r", "s", "a", "t", "i", "o", "n", "a", "l">>
      [] s = "casual, formal" ->
           <<"c", "a", "s", "u", "a", "l", ",", " ", "f", "o", "r", "m", "a", "l">>
      [] s = "balanced" ->
           <<"b", "a", "l", "a", "n", "c", "e", "d">>
      [] OTHER -> <<>>

UpperCase ==
    <<"A", "B", "C", "D", "E", "F", "G", "H", "I", "J", "K", "L", "M",
      "N", "O", "P", "Q", "R", "S", "T", "U", "V", "W", "X", "Y", "Z">>
LowerCase ==
    <<"a", "b", "c", "d", "e", "f", "g", "h", "i", "j", "k", "l", "m",
      "n", "o", "p", "q", "r", "s", "t", "u", "v", "w", "x", "y", "z">>

\* str.lower(), character by character
LowerChar(c) ==
    IF \E i \in 1..Len(UpperCase) : UpperCase[i] = c
    THEN LowerCase[CHOOSE i \in 1..Len(UpperCase) : UpperCase[i] = c]
    ELSE c
Lower(text) == [i \in 1..Len(text) |-> LowerChar(text[i])]

\* word in text
Contains(text, word) ==
    \E i \in 1..(Len(text) - Len(word) + 1) : SubSeq(text, i, i + Len(word) - 1) = word

WordFormal == <<"f", "o", "r", "m", "a", "l">>
WordAcademic == <<"a", "c", "a", "d", "e", "m", "i", "c">>
WordCasual == <<"c", "a", "s", "u", "a", "l">>
WordConversational == <<"c", "o", "n", "v", "e", "r", "s", "a", "t", "i", "o", "n", "a", "l">>

\* temperatures in tenths, confidences in hundredths
TemperatureFormal == 5
TemperatureCasual == 8
TemperatureDefault == 7
TemperatureConfidence == 30

Temperature(t) == [done |-> TRUE, exc |-> "none", value |-> t]
TemperatureRaised(cls) == [done |-> TRUE, exc |-> cls, value |-> 0]
NoTemperature == [done |-> FALSE, exc |-> "none", value |-> 0]

\* suggest_temperature(profile); a value that is not text has no lower()
SuggestTemperature(p) ==
    LET formality == p.dimensions["formality"] IN
    IF formality.confidence > TemperatureConfidence
    THEN IF formality.value.t # "str"
         THEN TemperatureRaised("AttributeError")
         ELSE LET val == Lower(Chars(formality.value.v)) IN
              IF Contains(val, WordFormal) \/ Contains(val, WordAcademic)
              THEN Temperature(TemperatureFormal)
              ELSE IF Contains(val, WordCasual) \/ Contains(val, WordConversational)
              THEN Temperature(TemperatureCasual)
              ELSE Temperature(TemperatureDefault)
    ELSE Temperature(TemperatureDefault)

\* suggest_temperature(profile)
SuggestTemperatureCall ==
    /\ ~temperature.done
    /\ temperature' = SuggestTemperature(pureProfile)
    /\ UNCHANGED <<pureProfile, fragment, styleVars, storeVars, clientVars, laterVars>>

----------------------------------------------------------------------------
(* content/article.py, content/streams.py: what generate makes of the
   model's reply. Texts are sequences of characters. *)

MaxReplyLen == 5

Whitespace == {" ", "\t", "\n"}
ReplyChars == {"#", " ", "\t", "\n", "a"}

\* str.lstrip(chars)
RECURSIVE LStrip(_, _)
LStrip(text, chars) ==
    IF text # <<>> /\ Head(text) \in chars THEN LStrip(Tail(text), chars) ELSE text

\* str.rstrip(chars)
RECURSIVE RStrip(_, _)
RStrip(text, chars) ==
    IF text # <<>> /\ text[Len(text)] \in chars
    THEN RStrip(SubSeq(text, 1, Len(text) - 1), chars)
    ELSE text

\* str.strip()
Strip(text) == RStrip(LStrip(text, Whitespace), Whitespace)

\* the first position of text holding a character of chars, or Len(text) + 1
Find(text, chars) ==
    IF \E i \in 1..Len(text) : text[i] \in chars
    THEN CHOOSE i \in 1..Len(text) :
            text[i] \in chars /\ \A j \in 1..(i - 1) : text[j] \notin chars
    ELSE Len(text) + 1

\* str.split("\n")
RECURSIVE SplitLines(_)
SplitLines(text) ==
    LET n == Find(text, {"\n"}) IN
    IF n > Len(text) THEN <<text>>
    ELSE <<SubSeq(text, 1, n - 1)>> \o SplitLines(SubSeq(text, n + 1, Len(text)))

\* "\n".join(lines)
RECURSIVE JoinLines(_)
JoinLines(lines) ==
    IF lines = <<>> THEN <<>>
    ELSE IF Len(lines) = 1 THEN lines[1]
    ELSE lines[1] \o <<"\n">> \o JoinLines(Tail(lines))

\* str.split()
RECURSIVE SplitWords(_)
SplitWords(text) ==
    LET t == LStrip(text, Whitespace)
        n == Find(t, Whitespace) IN
    IF t = <<>> THEN <<>>
    ELSE <<SubSeq(t, 1, n - 1)>> \o SplitWords(SubSeq(t, n, Len(t)))

\* the title with only the '#' characters taken off the front
TitleOfHashesOnly(line) == Strip(LStrip(line, {"#"}))

\* lines[0].lstrip("# ").strip()
TitleOf(line) == Strip(LStrip(line, {"#", " "}))

Parsed(title, body, word_count) ==
    [done |-> TRUE, title |-> title, body |-> body, word_count |-> word_count]
NotParsed == [done |-> FALSE, title |-> <<>>, body |-> <<>>, word_count |-> 0]

\* ArticleGenerator.generate, from the reply on
ArticleParse(reply) ==
    LET lines == SplitLines(Strip(reply))
        title == TitleOf(lines[1])
        body == Strip(JoinLines(Tail(lines)))
    IN  Parsed(title, body, Len(SplitWords(body)))

\* StreamGenerator.generate, from the reply on
StreamParse(reply) ==
    LET lines == SplitLines(Strip(reply))
        title == TitleOf(lines[1])
        body == Strip(JoinLines(Tail(lines)))
    IN  Parsed(title, body, Len(SplitWords(body)))

\* the replies of the model: every text of up to MaxReplyLen characters
Responses == UNION {[1..n -> ReplyChars] : n \in 0..MaxReplyLen}

ParseInit ==
    /\ response = <<>>
    /\ article = NotParsed
    /\ stream = NotParsed

\* ArticleGenerator(client).generate(request), the model replying response
ArticleGenerate ==
    /\ ~article.done
    /\ article' = ArticleParse(response)
    /\ UNCHANGED <<response, stream, finalVars, styleVars, storeVars, pureVars, clientVars,
                   streamVars, convVars, refinerVars, batchVars>>

\* StreamGenerator(client).generate(request), the model replying response
StreamGenerate ==
    /\ ~stream.done
    /\ stream' = StreamParse(response)
    /\ UNCHANGED <<response, article, finalVars, styleVars, storeVars, pureVars, clientVars,
                   streamVars, convVars, refinerVars, batchVars>>

----------------------------------------------------------------------------
(* cli.py: batch and _save_draft *)

MaxLines == 3

\* the lines a topics file is made of: a topic, a topic in quotes, a blank
\* line and a # line
FileLines ==
    {[kind |-> "topic", text |-> "alpha"], [kind |-> "quoted", text |-> "beta"],
     [kind |-> "blank", text |-> ""], [kind |-> "comment", text |-> ""]}
TopicFiles == UNION {[1..n -> FileLines] : n \in 0..MaxLines}

\* the topics of the file: blank lines and # lines are skipped, quotes taken off
RECURSIVE ParseTopics(_)
ParseTopics(lines) ==
    IF lines = <<>> THEN <<>>
    ELSE IF Head(lines).kind \in {"blank", "comment"} THEN ParseTopics(Tail(lines))
    ELSE <<Head(lines).text>> \o ParseTopics(Tail(lines))

BatchInputs == [dry_run : BOOLEAN, api_key : BOOLEAN, profile_loads : BOOLEAN]

\* how one topic's turn can go: generate raises, write_text raises, the
\* database session raises after the file is written, or all of it works
TopicOutcomes == {"generate_raises", "write_raises", "commit_raises", "saved"}

\* the body of the try block: what _save_draft leaves behind, and whether
\* an exception reaches the except clause before succeeded += 1
Turn(o) ==
    [file |-> o \in {"commit_raises", "saved"},
     record |-> o = "saved",
     raised |-> o # "saved"]

Attempted(topic, ok) == [topic |-> topic, ok |-> ok]

BatchInit ==
    /\ rawLines = <<>>
    /\ batchInput = [dry_run |-> FALSE, api_key |-> TRUE, profile_loads |-> TRUE]
    /\ topics = <<>>
    /\ bPc = "called"
    /\ attempted = <<>>
    /\ succeeded = 0
    /\ failed = <<>>
    /\ draftFiles = {}
    /\ records = {}

\* batch up to the loop: the topics are parsed; no topics and --dry-run
\* return, a missing key exits, a profile that does not load raises
BatchSetUp ==
    /\ bPc = "called"
    /\ topics' = ParseTopics(rawLines)
    /\ bPc' = IF ParseTopics(rawLines) = <<>> THEN "returned"
              ELSE IF batchInput.dry_run THEN "returned"
              ELSE IF ~batchInput.api_key THEN "exited"
              ELSE IF ~batchInput.profile_loads THEN "raised"
              ELSE "loop"
    /\ UNCHANGED <<rawLines, batchInput, attempted, succeeded, failed, draftFiles,
                   records, finalVars, styleVars, storeVars, pureVars, clientVars,
                   streamVars, convVars, refinerVars, parseVars>>

\* one turn of the loop, for the next topic of the list
BatchTopic(o) ==
    /\ bPc = "loop"
    /\ Len(attempted) < Len(topics)
    /\ LET i == Len(attempted) + 1
           t == Turn(o) IN
        /\ draftFiles' = IF t.file THEN draftFiles \cup {i} ELSE draftFiles
        /\ records' = IF t.record THEN records \cup {i} ELSE records
        /\ succeeded' = IF t.raised THEN succeeded ELSE succeeded + 1
        /\ failed' = IF t.raised THEN Append(failed, topics[i]) ELSE failed
        /\ attempted' = Append(attempted, Attempted(topics[i], ~t.raised))
    /\ UNCHANGED <<rawLines, batchInput, topics, bPc, finalVars, styleVars, storeVars,
                   pureVars, clientVars, streamVars, convVars, refinerVars, parseVars>>

\* the loop is over and the summary is printed
BatchSummary ==
    /\ bPc = "loop"
    /\ Len(attempted) = Len(topics)
    /\ bPc' = "complete"
    /\ UNCHANGED <<rawLines, batchInput, topics, attempted, succeeded, failed,
                   draftFiles, records, finalVars, styleVars, storeVars, pureVars,
                   clientVars, streamVars, convVars, refinerVars, parseVars>>

LaterInit == StreamInit /\ ConvInit /\ RefinerInit /\ ParseInit /\ BatchInit

----------------------------------------------------------------------------
(* research/analyzer.py, research/proposer.py and cli.py's research *)

MaxArticles == 2
RelevantScore == 5

\* the n-th article fetched from the feeds; n stands for its title and its url
ResearchArticle(n) == [title |-> n, url |-> n]

\* a Python value of the research code: its type, and for a dict its keys,
\* its "title", "url" and "relevance_score" (0 where the key is missing, as
\* a.get("relevance_score", 0) reads it), for a list its length
PyValue(kind, keys, title, url, score, items) ==
    [kind |-> kind, keys |-> keys, title |-> title, url |-> url,
     score |-> score, items |-> items]

NoValue == PyValue("none", {}, 0, 0, 0, 0)
EmptyList == PyValue("list", {}, 0, 0, 0, 0)

\* a reply of the model: kind "nonjson" for a text json.loads rejects, else
\* the value json.loads makes of it
AnalysisKeys == {"relevance_score", "relevant_focus_areas", "summary", "content_angles"}

ResearchReplies ==
    {PyValue("nonjson", {}, 0, 0, 0, 0),
     PyValue("null", {}, 0, 0, 0, 0),
     PyValue("num", {}, 0, 0, 0, 0),
     PyValue("str", {}, 0, 0, 0, 0),
     EmptyList,
     PyValue("list", {}, 0, 0, 0, 2),
     PyValue("obj", {}, 0, 0, 0, 0),
     PyValue("obj", AnalysisKeys, 0, 0, 8, 0),
     PyValue("obj", AnalysisKeys, 0, 0, 3, 0)}

\* bool(value) for the values above; the number and the string stand for
\* 42 and "hello"
Truthy(value) ==
    CASE value.kind \in {"none", "null"} -> FALSE
      [] value.kind = "list" -> value.items > 0
      [] value.kind = "obj" -> value.keys # {}
      [] OTHER -> TRUE

\* ArticleAnalyzer.analyze from the reply on: result["title"] = ... is an
\* item assignment, which only a dict (and, with an integer index, a list)
\* supports
AnalyzerAnalyze(research_article, reply) ==
    LET parsed == JsonLoads(reply) IN
    IF parsed.exc = "JSONDecodeError"
    THEN [exc |-> "none",
          val |-> PyValue("obj", AnalysisKeys \cup {"title", "url"},
                          research_article.title, research_article.url, 0, 0)]
    ELSE IF parsed.val.kind = "obj"
    THEN [exc |-> "none",
          val |-> PyValue("obj", parsed.val.keys \cup {"title", "url"},
                          research_article.title, research_article.url,
                          parsed.val.score, 0)]
    ELSE [exc |-> "TypeError", val |-> NoValue]

\* TopicProposer.propose from the reply on
ProposerPropose(reply) ==
    LET parsed == JsonLoads(reply) IN
    IF parsed.exc = "JSONDecodeError"
    THEN [exc |-> "none", val |-> EmptyList]
    ELSE [exc |-> "none", val |-> parsed.val]

\* relevant = [a for a in analyses if a.get("relevance_score", 0) >= 5]
Relevant(results) == SelectSeq(results, LAMBDA a : a.score >= RelevantScore)

ResearchCalled(op, reply, r) ==
    [op |-> op, reply |-> reply, exc |-> r.exc, val |-> r.val]

ResearchInit ==
    /\ rPc = "called"
    /\ fetched = <<>>
    /\ analyses = <<>>
    /\ proposals = NoValue
    /\ researchResult = ResearchCalled("none", NoValue, [exc |-> "none", val |-> NoValue])

\* research up to its loop: the feeds give n articles
ResearchFetch(n) ==
    /\ rPc = "called"
    /\ fetched' = [i \in 1..n |-> ResearchArticle(i)]
    /\ rPc' = IF n = 0 THEN "returned" ELSE "analyzing"
    /\ UNCHANGED <<analyses, proposals, researchResult, commandVars, publishVars,
                   blogVars, styleVars, storeVars, pureVars, clientVars, streamVars,
                   convVars, refinerVars, parseVars, batchVars>>

\* one turn of `for article in all_articles`
ResearchAnalyze(reply) ==
    /\ rPc = "analyzing"
    /\ Len(analyses) < Len(fetched)
    /\ LET r == AnalyzerAnalyze(fetched[Len(analyses) + 1], reply) IN
        /\ researchResult' = ResearchCalled("analyze", reply, r)
        /\ IF r.exc = "none"
           THEN analyses' = Append(analyses, r.val) /\ UNCHANGED rPc
           ELSE rPc' = "raised" /\ UNCHANGED analyses
    /\ UNCHANGED <<fetched, proposals, commandVars, publishVars,
                   blogVars, styleVars, storeVars, pureVars, clientVars, streamVars,
                   convVars, refinerVars, parseVars, batchVars>>

\* after the loop, with relevant articles: propose, and the listing of the
\* proposals, which calls p.get on every element of a true value
ResearchPropose(reply) ==
    /\ rPc = "analyzing"
    /\ Len(analyses) = Len(fetched)
    /\ Relevant(analyses) # <<>>
    /\ LET r == ProposerPropose(reply) IN
        /\ researchResult' = ResearchCalled("propose", reply, r)
        /\ proposals' = r.val
        /\ rPc' = IF Truthy(r.val) /\ r.val.kind # "list" THEN "raised" ELSE "done"
    /\ UNCHANGED <<fetched, analyses, commandVars, publishVars,
                   blogVars, styleVars, storeVars, pureVars, clientVars, streamVars,
                   convVars, refinerVars, parseVars, batchVars>>

\* after the loop, without relevant articles
ResearchNothingRelevant ==
    /\ rPc = "analyzing"
    /\ Len(analyses) = Len(fetched)
    /\ Relevant(analyses) = <<>>
    /\ rPc' = "done"
    /\ UNCHANGED <<fetched, analyses, proposals, researchResult, commandVars, publishVars,
                   blogVars, styleVars, storeVars, pureVars, clientVars, streamVars,
                   convVars, refinerVars, parseVars, batchVars>>

----------------------------------------------------------------------------
(* cli.py: the commands and _check_api_key. A command's body is the list of
   its steps in the order the code runs them. *)

CommandNames ==
    {"generate", "batch", "stream", "refine", "learn", "research", "publish", "style"}

Script(name) ==
    CASE name = "generate" ->
           <<"get_settings", "check_api_key", "load_profile", "model", "save_draft">>
      [] name = "batch" ->
           <<"read_topics", "return_if_no_topics", "return_if_dry_run", "get_settings",
             "check_api_key", "load_profile", "model", "save_draft">>
      [] name = "stream" ->
           <<"get_settings", "check_api_key", "load_profile", "model", "save_draft">>
      [] name = "refine" ->
           <<"get_settings", "check_api_key", "read_file", "model", "model">>
      [] name = "learn" ->
           <<"get_settings", "check_api_key", "load_profile", "read_file", "model",
             "save_profile">>
      [] name = "research" ->
           <<"get_settings", "check_api_key", "fetch_feed", "model", "model">>
      [] name = "publish" ->
           <<"get_settings", "check_api_key", "read_drafts", "return_if_no_drafts",
             "medium_request", "model", "commit", "regenerate_blog">>
      [] name = "style" ->
           <<"get_settings", "load_profile">>

\* the steps that send a request over the network
NetworkSteps == {"model", "fetch_feed", "medium_request"}

\* _check_api_key that lets every key through
CheckApiKeyPasses(settings) == "none"

\* _check_api_key(settings): what it raises
CheckApiKey(settings) ==
    IF settings.anthropic_api_key = "" THEN "SystemExit" ELSE "none"

\* a command line and what the command finds: the key in the settings,
\* --dry-run, topics in the file, drafts in the database
Invocations ==
    [name : CommandNames, anthropic_api_key : {"", "sk-ant"},
     dry_run : BOOLEAN, topics : BOOLEAN, drafts : BOOLEAN]

CommandInit ==
    /\ invocation = [name |-> "style", anthropic_api_key |-> "",
                     dry_run |-> FALSE, topics |-> FALSE, drafts |-> FALSE]
    /\ position = 1
    /\ termination = "none"
    /\ requests = <<>>

\* the CLI is started
Invoke(i) ==
    /\ termination # "running"
    /\ invocation' = i
    /\ position' = 1
    /\ termination' = "running"
    /\ requests' = <<>>
    /\ UNCHANGED <<researchVars, publishVars, blogVars, styleVars, storeVars, pureVars,
                   clientVars, streamVars, convVars, refinerVars, parseVars, batchVars>>

\* how the step at position ends the command, "running" if it does not
StepEnds(i, step) ==
    CASE step = "check_api_key" ->
           IF CheckApiKey(i) = "SystemExit" THEN "exited" ELSE "running"
      [] step = "return_if_no_topics" -> IF i.topics THEN "running" ELSE "returned"
      [] step = "return_if_dry_run" -> IF i.dry_run THEN "returned" ELSE "running"
      [] step = "return_if_no_drafts" -> IF i.drafts THEN "running" ELSE "returned"
      [] OTHER -> "running"

\* the next step of the running command
CommandStep ==
    /\ termination = "running"
    /\ LET script == Script(invocation.name)
           step == script[position]
           ends == StepEnds(invocation, step)
       IN  /\ requests' = IF step \in NetworkSteps THEN Append(requests, step) ELSE requests
           /\ termination' = IF ends # "running" THEN ends
                             ELSE IF position = Len(script) THEN "finished"
                             ELSE "running"
           /\ position' = IF ends = "running" /\ position < Len(script) THEN position + 1 ELSE position
    /\ UNCHANGED <<invocation, researchVars, publishVars, blogVars, styleVars, storeVars,
                   pureVars, clientVars, streamVars, convVars, refinerVars, parseVars,
                   batchVars>>

----------------------------------------------------------------------------
(* storage/models.py and cli.py's _regenerate_blog. index.html is a sequence
   of tokens: the two markers, the cards of a rendered blog section, and
   stretches of other text. *)

MaxRecords == 2
MaxHtmlLen == 4

\* ContentRecord(...) as _save_draft builds it: the column defaults
NewRecordPublished == [status |-> "published", medium_url |-> "", teaser |-> ""]

NewRecord == [status |-> "draft", medium_url |-> "", teaser |-> ""]

\* teasers: one without a backslash, one holding the two characters \d
PlainTeaser == "Why the model flagged it."
BackslashTeaser == "How \\d+ finds the dose."
Teasers == {PlainTeaser, BackslashTeaser}

Token(kind) == [kind |-> kind, id |-> 0, medium_url |-> "", teaser |-> ""]
BlogStart == Token("<!-- BLOG_START -->")
BlogEnd == Token("<!-- BLOG_END -->")
OtherText == Token("text")

\* the dict of one article, as a rendered card; the row's id stands for its title
Card(id, row) ==
    [kind |-> "card", id |-> id, medium_url |-> row.medium_url, teaser |-> row.teaser]

\* select(ContentRecord).where(status == "published").where(medium_url != "")
PublishedIds(rows) ==
    {id \in 1..Len(rows) : rows[id].status = "published" /\ rows[id].medium_url # ""}

\* the articles list built from the query's rows, in id order
RECURSIVE Articles(_, _)
Articles(rows, id) ==
    IF id > Len(rows) THEN <<>>
    ELSE (IF id \in PublishedIds(rows) THEN <<Card(id, rows[id])>> ELSE <<>>)
         \o Articles(rows, id + 1)

\* template.render(articles=articles) of blog_section.html.j2: the two
\* markers around one card per article
Render(articles) == <<BlogStart>> \o articles \o <<BlogEnd>>

\* the pattern's leftmost match at or after position from, matching from a
\* start marker to the end of the text when no end marker follows
MatchFromWithoutEnd(text, from) ==
    LET starts == {i \in from..Len(text) : text[i] = BlogStart} IN
    IF starts = {} THEN [s |-> 0, e |-> 0]
    ELSE LET s == CHOOSE i \in starts : \A k \in starts : i <= k
             ends == {j \in (s + 1)..Len(text) : text[j] = BlogEnd}
         IN  [s |-> s,
              e |-> IF ends = {} THEN Len(text)
                    ELSE CHOOSE j \in ends : \A k \in ends : j <= k]

\* the leftmost match of r"<!-- BLOG_START -->.*?<!-- BLOG_END -->" with
\* re.DOTALL at or after position from: it begins at the first start marker
\* that an end marker follows and ends at the first end marker after it;
\* s = 0 when there is none
MatchFrom(text, from) ==
    LET starts == {i \in from..Len(text) :
                      /\ text[i] = BlogStart
                      /\ \E j \in (i + 1)..Len(text) : text[j] = BlogEnd}
    IN  IF starts = {} THEN [s |-> 0, e |-> 0]
        ELSE LET s == CHOOSE i \in starts : \A k \in starts : i <= k
                 ends == {j \in (s + 1)..Len(text) : text[j] = BlogEnd}
             IN  [s |-> s, e |-> CHOOSE j \in ends : \A k \in ends : j <= k]

\* re's reading of a replacement string: a backslash before a letter that
\* is no known escape is an error
BadEscape(repl) ==
    \E i \in 1..Len(repl) : repl[i].teaser = BackslashTeaser

\* re.sub(pattern, repl, text, flags=re.DOTALL) from position from on: every
\* match is replaced
RECURSIVE Sub(_, _, _)
Sub(repl, text, from) ==
    LET m == MatchFrom(text, from) IN
    IF m.s = 0 THEN SubSeq(text, from, Len(text))
    ELSE SubSeq(text, from, m.s - 1) \o repl \o Sub(repl, text, m.e + 1)

IndexHtml(text) == [exists |-> TRUE, text |-> text]
NoIndexHtml == [exists |-> FALSE, text |-> <<>>]

\* _regenerate_blog(settings): index.html as it leaves it, and what it did
RegenerateBlog(index, rows) ==
    LET blog_html == Render(Articles(rows, 1)) IN
    IF ~index.exists
    THEN [html |-> index, outcome |-> "index.html not found"]
    ELSE IF MatchFrom(index.text, 1).s = 0
    THEN [html |-> index, outcome |-> "Blog markers not found"]
    ELSE IF BadEscape(blog_html)
    THEN [html |-> index, outcome |-> "re.error"]
    ELSE [html |-> IndexHtml(Sub(blog_html, index.text, 1)), outcome |-> "updated"]

BlogCalled(outcome, before, rows) ==
    [outcome |-> outcome, before |-> before, rows |-> rows]

BlogInit ==
    /\ html = IndexHtml(<<OtherText, BlogStart, BlogEnd, OtherText>>)
    /\ blogResult = BlogCalled("none", NoIndexHtml, <<>>)

\* _regenerate_blog called on its own
RegenerateBlogCall ==
    /\ blogResult.outcome = "none"
    /\ LET r == RegenerateBlog(html, db) IN
        /\ html' = r.html
        /\ blogResult' = BlogCalled(r.outcome, html, db)
    /\ UNCHANGED <<researchVars, commandVars, publishVars, styleVars, storeVars,
                   pureVars, clientVars, streamVars, convVars, refinerVars, parseVars,
                   batchVars>>

----------------------------------------------------------------------------
(* cli.py: publish, and the record _save_draft commits. A record's id is its
   position in db. *)

\* the URL Medium gives the post of the record with this id
PostUrl(id) ==
    <<"https://medium.com/p/1", "https://medium.com/p/2",
      "https://medium.com/p/3", "https://medium.com/p/4">>[id]

\* what is typed at "Medium URL (paste or leave blank)"
TypedUrls == {"", "https://medium.com/@me/pasted"}

\* what is typed at "Select articles to publish": 'all', ids, or no numbers
Selections ==
    {[kind |-> k, ids |-> {}] : k \in {"all", "invalid"}}
    \cup {[kind |-> "ids", ids |-> ids] : ids \in SUBSET (1..MaxRecords)}

\* what happens to one article: Medium accepts the post or the request
\* fails, a URL is typed if asked for, the teaser call returns a teaser
\* (as teaser.strip().strip('"') leaves it) or raises
ArticleOutcomes ==
    [medium : {"accepted", "failed"}, typed : TypedUrls,
     teaser_raises : BOOLEAN, teaser : Teasers]

ClosedSession == [open |-> FALSE, rows |-> <<>>]

PublishInit ==
    /\ db = <<>>
    /\ session = ClosedSession
    /\ pPc = "idle"
    /\ selected = <<>>
    /\ handled = 0
    /\ medium_client = FALSE
    /\ accepted = {}
    /\ published_count = 0

\* the database half of _save_draft: session.add(record); session.commit()
SaveDraftRecord ==
    /\ pPc # "loop"
    /\ Len(db) < MaxRecords
    /\ db' = Append(db, NewRecord)
    /\ UNCHANGED <<session, pPc, selected, handled, medium_client, accepted,
                   published_count, researchVars, commandVars, blogVars, styleVars,
                   storeVars, pureVars, clientVars, streamVars, convVars, refinerVars,
                   parseVars, batchVars>>

\* select(ContentRecord).where(ContentRecord.status == "draft"): the ids
Drafts(rows) ==
    SelectSeq([id \in 1..Len(rows) |-> id], LAMBDA id : rows[id].status = "draft")

\* publish up to its loop: the key check, the drafts, the selection, the
\* Medium client (token set and get_user_id answered, or not)
PublishStart(settings, selection, connected) ==
    /\ pPc # "loop"
    /\ LET drafts == Drafts(db)
           selected_ids == IF selection.kind = "all"
                           THEN {drafts[n] : n \in 1..Len(drafts)}
                           ELSE selection.ids
           chosen == SelectSeq(drafts, LAMBDA id : id \in selected_ids)
       IN  IF CheckApiKey(settings) = "SystemExit"
           THEN /\ pPc' = "exited"
                /\ UNCHANGED <<session, selected, handled, medium_client,
                               accepted, published_count>>
           ELSE IF drafts = <<>> \/ selection.kind = "invalid" \/ chosen = <<>>
           THEN /\ pPc' = "returned"
                /\ UNCHANGED <<session, selected, handled, medium_client,
                               accepted, published_count>>
           ELSE /\ pPc' = "loop"
                /\ selected' = chosen
                /\ handled' = 0
                /\ medium_client' = connected
                /\ accepted' = {}
                /\ published_count' = 0
                /\ session' = [open |-> TRUE, rows |-> db]
    /\ UNCHANGED <<db, researchVars, commandVars, blogVars, styleVars, storeVars,
                   pureVars, clientVars, streamVars, convVars, refinerVars, parseVars,
                   batchVars>>

\* one turn of `for article in selected`: only the Medium request is inside
\* a try; an exception of the teaser call leaves the loop and the `with`
\* block, whose session closes without a commit
PublishArticle(o) ==
    /\ pPc = "loop"
    /\ handled < Len(selected)
    /\ LET id == selected[handled + 1]
           posted == medium_client /\ o.medium = "accepted"
           medium_url == IF posted THEN PostUrl(id) ELSE o.typed
       IN  /\ handled' = handled + 1
           /\ accepted' = IF posted
                          THEN accepted \cup {[id |-> id, url |-> PostUrl(id)]}
                          ELSE accepted
           /\ IF o.teaser_raises
              THEN /\ pPc' = "raised"
                   /\ session' = ClosedSession
                   /\ UNCHANGED published_count
              ELSE /\ session' = [session EXCEPT !.rows[id] =
                                     [status |-> "published", medium_url |-> medium_url,
                                      teaser |-> o.teaser]]
                   /\ published_count' = published_count + 1
                   /\ UNCHANGED pPc
    /\ UNCHANGED <<db, selected, medium_client, researchVars, commandVars, blogVars,
                   styleVars, storeVars, pureVars, clientVars, streamVars, convVars,
                   refinerVars, parseVars, batchVars>>

\* after the loop: session.commit(), then _regenerate_blog(settings)
PublishCommit ==
    /\ pPc = "loop"
    /\ handled = Len(selected)
    /\ db' = session.rows
    /\ session' = ClosedSession
    /\ LET r == RegenerateBlog(html, session.rows) IN
        /\ html' = r.html
        /\ blogResult' = BlogCalled(r.outcome, html, session.rows)
        /\ pPc' = IF r.outcome = "re.error" THEN "blog_raised" ELSE "complete"
    /\ UNCHANGED <<selected, handled, medium_client, accepted, published_count,
                   researchVars, commandVars, styleVars, storeVars, pureVars,
                   clientVars, streamVars, convVars, refinerVars, parseVars, batchVars>>

FinalInit == ResearchInit /\ CommandInit /\ PublishInit /\ BlogInit

----------------------------------------------------------------------------
(* Specifications *)

\* the analyzer at work on the default profile
Init == StyleInit /\ StoreInit /\ PureInit /\ ClientInit /\ LaterInit /\ FinalInit

Next ==
    \/ \E reply \in Replies : clock < MaxEdits /\ AnalyzeEditCall(reply)
    \/ clock < MaxEdits /\ AnalyzeEditClientError

Spec == Init /\ [][Next]_vars

\* a profile learned, saved and loaded
StoreReplies == {NonJson, EmptyObject, CasualWithExample, NumberPreference,
                 NullPreferenceNumberExample}

StoreNext ==
    \/ \E reply \in StoreReplies : clock < MaxStoreEdits /\ AnalyzeEditCall(reply)
    \/ Save
    \/ \E u \in Users : Load(u)

StoreSpec == Init /\ [][StoreNext]_vars

\* the pure functions of a profile, on profiles of every shape
PureSpecInit ==
    /\ StyleInit /\ StoreInit /\ ClientInit /\ LaterInit /\ FinalInit
    /\ pureProfile \in PureProfiles
    /\ fragment = NotCalled
    /\ temperature = NoTemperature

PureNext == ToPromptFragmentCall \/ SuggestTemperatureCall

PureSpec == PureSpecInit /\ [][PureNext]_vars

\* the client's generate, called again and again
ClientNext ==
    \/ GenerateStart
    \/ \E o \in CreateOutcomes : Attempt(o)
    \/ Sleep

ClientSpec == Init /\ [][ClientNext]_vars

----------------------------------------------------------------------------
(* The claims about the analyzer, checked under Spec *)

\* a step that is one analyze_edit call
Analyzed == clock' = clock + 1

\* the reply of the call just made is a JSON object with an entry for key k
HasEntry(reply, k) == reply.kind = "obj" /\ k \in reply.keys

\* ... and that entry is itself a JSON object
HasObjectEntry(reply, k) == HasEntry(reply, k) /\ reply.entries[k].t = "dict"

Confidence(p, k) == p.dimensions[k].confidence
Examples(p, k) == p.dimensions[k].examples

\* C1: a call whose reply is not the expected structure (non-JSON text, or
\* JSON that is a list, a string, a number, a boolean or null) returns the
\* profile with edit_count, last_updated and every dimension unchanged, and
\* no exception reaches the caller.
C1_MalformedReplyIsNoOp ==
    [][(Analyzed /\ lastReply' \in MalformedReplies)
        => (profile' = profile /\ ~raisedOut')]_vars

C3_ExamplesKeepLastFive ==
    [][Analyzed => \A k \in DimKeys :
        /\ Len(Examples(profile', k)) <= KeepExamples
        /\ IF HasObjectEntry(lastReply', k) /\ lastReply'.entries[k].ex # Absent
           THEN Examples(profile', k) =
                    (IF Len(Examples(profile, k)) = KeepExamples
                     THEN Tail(Examples(profile, k))
                     ELSE Examples(profile, k)) \o <<lastReply'.entries[k].ex>>
           ELSE Examples(profile', k) = Examples(profile, k)
      ]_vars

\* C3's case: six examples went into sentence_length (only TwoDimensions
\* touches it, and it also appends to formality), then a different example
\* into formality: the oldest of a full list was evicted
C3_Evicted ==
    /\ Confidence(profile, "sentence_length") = 6 * ConfidenceStep
    /\ Len(Examples(profile, "sentence_length")) = KeepExamples
    /\ Examples(profile, "formality") =
          [i \in 1..KeepExamples |->
              IF i < KeepExamples THEN Str("Look, here's the thing...")
              ELSE Str("The AI flagged it.")]

\* C5: every call whose reply parses as the expected structure adds exactly
\* 1 to edit_count, so edit_count is the number of such calls.
C5_EditCountCountsParsedReplies ==
    profile.edit_count = parsedCalls

----------------------------------------------------------------------------
(* The claim about to_prompt_fragment, checked under PureSpec *)

LineKeys(lines) == {lines[i].key : i \in {j \in 1..Len(lines) : lines[j].line # "header"}}

\* C4: the fragment is the empty text iff edit_count = 0; with edit_count
\* >= 1 every line of a dimension is of a dimension whose confidence is
\* above 0.2, and no dimension at or below 0.2 has a line.
C4_FragmentOnlyConfidentDimensions ==
    fragment.done =>
        /\ (fragment.lines = <<>>) <=> (pureProfile.edit_count = 0)
        /\ \A k \in LineKeys(fragment.lines) :
              k \in DimKeys /\ Confidence(pureProfile, k) > ConfidenceThreshold
        /\ \A k \in DimKeys :
              Confidence(pureProfile, k) <= ConfidenceThreshold
                  => k \notin LineKeys(fragment.lines)

\* C4's case: an edited profile with one dimension exactly at 0.2 and one
\* above it
C4_AtThreshold ==
    /\ fragment.done
    /\ pureProfile.edit_count >= 1
    /\ Confidence(pureProfile, "formality") = ConfidenceThreshold
    /\ Confidence(pureProfile, "humor") > ConfidenceThreshold
    /\ LineKeys(fragment.lines) = {"humor"}

----------------------------------------------------------------------------
(* The claims about save and load, checked under StoreSpec *)

SameLearned(p, q) ==
    /\ p.edit_count = q.edit_count
    /\ DOMAIN p.dimensions = DOMAIN q.dimensions
    /\ \A k \in DOMAIN p.dimensions :
          /\ p.dimensions[k].value = q.dimensions[k].value
          /\ p.dimensions[k].confidence = q.dimensions[k].confidence
          /\ p.dimensions[k].examples = q.dimensions[k].examples

\* C6: a profile reached from default() by analyze_edit calls, saved and
\* then loaded by its user_id, comes back with the same values,
\* confidences, examples and edit_count.
C6_SaveLoadRoundTrip ==
    lastOp = "save" =>
        LET r == LoadProfile(files, profile.user_id, clock) IN
        r.exc = "none" /\ SameLearned(r.profile, profile)

\* C7: load of a user id without a file does not fail and returns that
\* user's default profile (8 dimensions, every confidence 0, edit_count 0);
\* a later save writes the file of the user id that was asked for.
C7_LoadMissingGivesUsersDefault ==
    /\ lastOp = "load_missing" =>
          /\ loadError = "none"
          /\ DOMAIN profile.dimensions = DimKeys /\ Cardinality(DimKeys) = 8
          /\ \A k \in DimKeys : Confidence(profile, k) = 0
          /\ profile.edit_count = 0
          /\ profile.user_id = requested
    /\ lastOp = "save" => files[requested].exists

----------------------------------------------------------------------------
(* The claims about ClaudeClient.generate, checked under ClientSpec *)

Failure(i) == GenerateBody(outcomes[i]).exc
Failed(i) == Failure(i) # NoError

\* the failures the claim says are not retried, and those it says are
NotRetriedKind(e) == e.auth \/ (e.isStatus /\ e.status \in 400..499 /\ e.status # 429)
RetriedKind(e) ==
    e # NoError /\ ~e.auth /\ (~e.isStatus \/ e.status = 429 \/ e.status \in 500..599)

\* attempt i is followed by a sleep and then the next attempt
Retried(i) == (i = Len(outcomes) /\ cPc = "sleep") \/ attemptNumber > i

\* C8: an attempt that meets an authentication failure or a 4xx other than
\* 429 is the call's last (one attempt when it is the first) and its error
\* is raised at once; a 429, a 5xx and a failure without a status (timeout,
\* transport) are retried while attempts are left.
C8_FailureClassification ==
    \A i \in 1..Len(outcomes) :
        /\ NotRetriedKind(Failure(i)) =>
              /\ i = Len(outcomes)
              /\ cPc = "raised"
              /\ cResult = Delivered("error", Failure(i).cls, Failure(i))
        /\ (RetriedKind(Failure(i)) /\ i < StopAfterAttempt) => Retried(i)

\* C8's case: a rate limit was retried and the bad request that followed
\* was not: it is the caller's error
C8_RetriedThenNot ==
    /\ Len(outcomes) = 2
    /\ outcomes[1] = Raises(RateLimitError)
    /\ outcomes[2] = Raises(BadRequestError)
    /\ cPc = "raised"

AllFailedRetryable ==
    \A i \in 1..Len(outcomes) : Failed(i) /\ _is_retryable(Failure(i))

\* C9: a call makes at most 3 attempts; when every attempt fails with a
\* retryable error there are exactly 3 and then an error is raised; when
\* an attempt succeeds it is the last one and its text is returned.
C9_AtMostThreeAttempts ==
    /\ Len(outcomes) <= StopAfterAttempt
    /\ attemptNumber <= StopAfterAttempt
    /\ (cPc = "raised" /\ AllFailedRetryable) => Len(outcomes) = StopAfterAttempt
    /\ (Len(outcomes) = StopAfterAttempt /\ AllFailedRetryable) =>
          (cPc = "raised" /\ cResult.kind = "error")
    /\ \A i \in 1..Len(outcomes) : ~Failed(i) =>
          /\ i = Len(outcomes)
          /\ cPc = "returned"
          /\ cResult.kind = "text"

\* C9's case: three retryable failures in a row, and the call has ended
C9_Exhausted ==
    /\ Len(outcomes) = StopAfterAttempt
    /\ AllFailedRetryable
    /\ cPc = "raised"
    /\ Len(waits) = StopAfterAttempt - 1

\* C10: when the retries are exhausted the caller gets the last attempt's
\* own error, of the kind the provider returned.
C10_ExhaustionDeliversLastError ==
    (cPc = "raised" /\ Len(outcomes) = StopAfterAttempt /\ AllFailedRetryable) =>
        /\ cResult.kind = "error"
        /\ cResult.cls = Failure(StopAfterAttempt).cls

----------------------------------------------------------------------------
(* The specifications of the streaming call, the conversation, the refiner,
   the generators' parsing and batch *)

\* generate_streaming called and its generator consumed, again and again
StreamNext ==
    \/ GenerateStreamingCall
    \/ \E o \in StreamOutcomes : StreamEnter(o)
    \/ StreamYield
    \/ \E e \in ApiErrors : StreamBreak(e)
    \/ StreamEnd

StreamSpec == Init /\ [][StreamNext]_vars

\* one Conversation, sent to again and again
ConvNext ==
    \E m \in UserMessages, streamed \in BOOLEAN, o \in ModelOutcomes :
        ConversationSend(m, streamed, o)

ConvSpec == Init /\ [][ConvNext]_vars

\* one ContentRefiner
RefinerNext ==
    \/ \E o \in ModelOutcomes : StartRefinement(o)
    \/ \E f \in Feedbacks, socratic \in BOOLEAN, o \in ModelOutcomes : Refine(f, socratic, o)

RefinerSpec == Init /\ [][RefinerNext]_vars

\* both generators given every short reply
ParseSpecInit ==
    /\ StyleInit /\ StoreInit /\ PureInit /\ ClientInit
    /\ StreamInit /\ ConvInit /\ RefinerInit /\ BatchInit /\ FinalInit
    /\ response \in Responses
    /\ article = NotParsed
    /\ stream = NotParsed

ParseNext == ArticleGenerate \/ StreamGenerate

ParseSpec == ParseSpecInit /\ [][ParseNext]_vars

\* batch run on every small topics file
BatchSpecInit ==
    /\ StyleInit /\ StoreInit /\ PureInit /\ ClientInit
    /\ StreamInit /\ ConvInit /\ RefinerInit /\ ParseInit /\ FinalInit
    /\ rawLines \in TopicFiles
    /\ batchInput \in BatchInputs
    /\ topics = <<>>
    /\ bPc = "called"
    /\ attempted = <<>>
    /\ succeeded = 0
    /\ failed = <<>>
    /\ draftFiles = {}
    /\ records = {}

BatchNext ==
    \/ BatchSetUp
    \/ \E o \in TopicOutcomes : BatchTopic(o)
    \/ BatchSummary

BatchSpec == BatchSpecInit /\ [][BatchNext]_vars

----------------------------------------------------------------------------
(* The claims about the waits and the token counters, checked under
   ClientSpec *)

\* the waits the policy is said to give: 2 first, doubling, at most 30
DoublingFromTwo(i) == Min(2 * 2 ^ (i - 1), 30)

\* C11: the i-th wait of a call is 2 doubled i - 1 times and capped at 30:
\* 2 before the second attempt, 4 before the third
C11_WaitsDoubleFromTwo ==
    \A i \in 1..Len(waits) : waits[i] = DoublingFromTwo(i)

\* a step that is one attempt of generate
AttemptStep == Len(outcomes') = Len(outcomes) + 1
LastOutcome == outcomes'[Len(outcomes')]

\* C12 as stated: the counters never decrease, and an attempt adds the usage
\* of its response when it returns the text to the caller and nothing when
\* it fails
C12_OnlyReturnedResponsesCount ==
    [][ /\ totalIn' >= totalIn /\ totalOut' >= totalOut
        /\ AttemptStep =>
             /\ totalIn' = totalIn + (IF cPc' = "returned" THEN LastOutcome.input ELSE 0)
             /\ totalOut' = totalOut + (IF cPc' = "returned" THEN LastOutcome.output ELSE 0)
        /\ ~AttemptStep => totalIn' = totalIn /\ totalOut' = totalOut ]_vars

\* C12 amended: the counters never decrease, and an attempt adds the usage
\* of the response messages.create returned, whether or not the attempt
\* then returns its text; an attempt in which messages.create raised adds
\* nothing, and nothing else changes the counters
C12_EveryResponseCounts ==
    [][ /\ totalIn' >= totalIn /\ totalOut' >= totalOut
        /\ AttemptStep =>
             /\ totalIn' = totalIn + (IF LastOutcome.ok THEN LastOutcome.input ELSE 0)
             /\ totalOut' = totalOut + (IF LastOutcome.ok THEN LastOutcome.output ELSE 0)
        /\ ~AttemptStep => totalIn' = totalIn /\ totalOut' = totalOut ]_vars

\* two calls have returned after a response without content was counted
\* and its attempt retried
C12_CountedAcrossCalls ==
    /\ calls = 2 /\ cPc = "returned"
    /\ Len(outcomes) = 2 /\ outcomes[1] = Responds(1, 1, 0)
    /\ totalIn >= 3 /\ totalOut >= 3

----------------------------------------------------------------------------
(* The claim about generate_streaming, checked under StreamSpec *)

\* C13: a retryable failure on entering the stream, before any fragment, is
\* retried: it reaches the consumer only after the third attempt
C13_ConnectionFailureIsRetried ==
    (sPc = "refused" /\ _is_retryable(sResult.cause)) => sEnters = StopAfterAttempt

----------------------------------------------------------------------------
(* The claims about Conversation, checked under ConvSpec *)

Alternates(msgs) ==
    \A i \in 1..Len(msgs) : msgs[i].role = IF i % 2 = 1 THEN "user" ELSE "assistant"

NoAdjacentUsers(msgs) ==
    \A i \in 1..(Len(msgs) - 1) : ~(msgs[i].role = "user" /\ msgs[i + 1].role = "user")

\* C14: in every state the log alternates user, assistant, user, ... and the
\* history handed to the model has no two user turns next to each other
C14_LogAlternates ==
    Alternates(messages) /\ NoAdjacentUsers(sent)

\* C15: after a send that returned, n sends having returned in all, the log
\* has 2n entries and turn_count is n
C15_TwoEntriesPerReturnedSend ==
    (sendResult.op = "send" /\ sendResult.exc = "none") =>
        /\ Len(messages) = 2 * returnedSends
        /\ turn_count(messages) = returnedSends

----------------------------------------------------------------------------
(* The claims about ContentRefiner, checked under RefinerSpec *)

\* C16: a refine call made while no conversation is set raises
\* RuntimeError, calls the model not at all, sends nothing, and leaves the
\* refiner without a conversation and with revision_count 0
C16_RefineBeforeStartRaises ==
    [][ (refineCalls' = refineCalls + 1 /\ ~conversation) =>
            /\ refinerResult' = SendResult("refine", "RuntimeError", FALSE)
            /\ modelCalls' = modelCalls
            /\ sends' = sends
            /\ messages' = messages
            /\ ~conversation'
            /\ revision_count(conversation', messages') = 0 ]_vars

\* refine has been refused twice in a row on a refiner never started
C16_RefusedTwice ==
    /\ ~conversation
    /\ refineCalls = 2
    /\ refinerResult = SendResult("refine", "RuntimeError", FALSE)
    /\ modelCalls = 0

\* C17: once start_refinement has returned, revision_count is the number of
\* refine calls that have returned a reply since, whatever calls failed
C17_RevisionCountCountsReturnedRefines ==
    started => revision_count(conversation, messages) = returnedRefines

----------------------------------------------------------------------------
(* The claim about suggest_temperature, checked under PureSpec *)

\* the lower-cased value contains the word; a value that is not text
\* contains none
ValueContains(value, word) ==
    value.t = "str" /\ Contains(Lower(Chars(value.v)), word)

\* C18: the result is 0.5 when formality's confidence is above 0.3 and its
\* value contains "formal" or "academic", else 0.8 when the confidence is
\* above 0.3 and the value contains "casual" or "conversational", and 0.7 in
\* every other case
C18_TemperatureTable ==
    temperature.done =>
        LET f == pureProfile.dimensions["formality"] IN
        temperature =
            IF f.confidence > 30
               /\ (ValueContains(f.value, WordFormal) \/ ValueContains(f.value, WordAcademic))
            THEN Temperature(5)
            ELSE IF f.confidence > 30
               /\ (ValueContains(f.value, WordCasual)
                   \/ ValueContains(f.value, WordConversational))
            THEN Temperature(8)
            ELSE Temperature(7)

----------------------------------------------------------------------------
(* The claim about the generators' parsing, checked under ParseSpec *)

\* t is s with the whitespace taken off both ends
IsTrimOf(t, s) ==
    \E a \in 1..(Len(s) + 1), b \in 0..Len(s) :
        /\ t = SubSeq(s, a, b)
        /\ \A i \in 1..(a - 1) : s[i] \in Whitespace
        /\ \A i \in (b + 1)..Len(s) : s[i] \in Whitespace
        /\ t # <<>> => (t[1] \notin Whitespace /\ t[Len(t)] \notin Whitespace)

\* t is line with its leading run of '#' and space characters taken off,
\* and then the whitespace taken off both ends
IsTitleOf(t, line) ==
    \E h \in 0..Len(line) :
        /\ \A i \in 1..h : line[i] \in {"#", " "}
        /\ h < Len(line) => line[h + 1] \notin {"#", " "}
        /\ IsTrimOf(t, SubSeq(line, h + 1, Len(line)))

\* the words of a text: the places where a run of non-whitespace begins
WordStarts(text) ==
    {i \in 1..Len(text) :
        text[i] \notin Whitespace /\ (i = 1 \/ text[i - 1] \in Whitespace)}

\* the first line of the trimmed reply, and what follows its line break
FirstLine(reply) ==
    LET r == Strip(reply) IN SubSeq(r, 1, Find(r, {"\n"}) - 1)
AfterFirstLine(reply) ==
    LET r == Strip(reply) IN SubSeq(r, Find(r, {"\n"}) + 1, Len(r))

IsParseOf(p, reply) ==
    /\ IsTitleOf(p.title, FirstLine(reply))
    /\ IsTrimOf(p.body, AfterFirstLine(reply))
    /\ p.word_count = Cardinality(WordStarts(p.body))

\* the title with every leading '#' and whitespace character taken off, and
\* the trailing whitespace
WithoutLeadingHashesAndWhitespace(line) ==
    RStrip(LStrip(line, {"#"} \cup Whitespace), Whitespace)

\* the title with the leading '#' characters taken off, and then the
\* whitespace on both ends
WithoutLeadingHashes(line) ==
    RStrip(LStrip(LStrip(line, {"#"}), Whitespace), Whitespace)

\* C19 as stated: both generators give the same title, body and word count;
\* the title is the first line of the trimmed reply with the leading '#'
\* characters and the surrounding whitespace removed, in whichever of the
\* two senses of those words; the body is the rest, trimmed; word_count is
\* the number of whitespace-delimited tokens of the body
C19_TitleWithoutHashesAndWhitespace ==
    /\ article.done =>
        /\ article.title \in {WithoutLeadingHashesAndWhitespace(FirstLine(response)),
                              WithoutLeadingHashes(FirstLine(response))}
        /\ IsTrimOf(article.body, AfterFirstLine(response))
        /\ article.word_count = Cardinality(WordStarts(article.body))
    /\ (article.done /\ stream.done) => article = stream

\* C19 amended: both generators give the same title, body and word count;
\* the title is the first line of the trimmed reply with its leading run of
\* '#' and space characters removed and then the whitespace removed on both
\* ends; the body is the rest, trimmed; word_count is the number of
\* whitespace-delimited tokens of the body, 0 for a reply of one line
C19_TitleBodyWordCount ==
    /\ article.done => IsParseOf(article, response)
    /\ stream.done => IsParseOf(stream, response)
    /\ (article.done /\ stream.done) => article = stream
    /\ (article.done /\ Find(Strip(response), {"\n"}) > Len(Strip(response))) =>
            article.word_count = 0

\* a heading line and a body of one word, parsed by both generators
C19_HeadingAndBody ==
    /\ response = <<"#", " ", "a", "\n", "a">>
    /\ article.done /\ stream.done
    /\ article.title = <<"a">> /\ article.body = <<"a">> /\ article.word_count = 1

----------------------------------------------------------------------------
(* The claim about batch, checked under BatchSpec *)

FailedAttempts == SelectSeq(attempted, LAMBDA a : ~a.ok)
SucceededAttempts == SelectSeq(attempted, LAMBDA a : a.ok)

\* C20: the loop takes the topics once each in the order of the file, a
\* topic whose turn raised goes to failed and the loop goes on; when batch
\* completes every topic has been attempted and succeeded plus the length
\* of failed is the number of topics; a draft, its file in the drafts
\* directory and its record in the database, has been saved for the topics
\* counted as succeeded and for no other
C20_DraftsExactlyForSucceeded ==
    /\ Len(attempted) <= Len(topics)
    /\ \A i \in 1..Len(attempted) : attempted[i].topic = topics[i]
    /\ failed = [i \in 1..Len(FailedAttempts) |-> FailedAttempts[i].topic]
    /\ succeeded = Len(SucceededAttempts)
    /\ \A i \in 1..Len(attempted) :
        /\ i \in draftFiles <=> attempted[i].ok
        /\ i \in records <=> attempted[i].ok
    /\ bPc = "complete" =>
        /\ Len(attempted) = Len(topics)
        /\ succeeded + Len(failed) = Len(topics)

----------------------------------------------------------------------------
(* C27..C29: the style analyzer's frame, the type of a value, a failed start *)

\* C27: in every profile reached by analyze_edit calls from default() the
\* dimensions are exactly the 8 fixed keys, whatever keys the replies hold,
\* and a call whose reply does not name a dimension leaves that dimension's
\* value, confidence and examples as they were.
C27_FixedKeysAndAbsentKeyUntouched ==
    /\ [](DOMAIN profile.dimensions = DimKeys)
    /\ [][(clock' = clock + 1 /\ lastReply' # NoReply) =>
            \A k \in DimKeys :
                k \notin lastReply'.keys =>
                    profile'.dimensions[k] = profile.dimensions[k]]_vars

\* a reply holding only the unknown key "tone" has been analysed after a
\* reply that taught a dimension, and what was taught is still there
C27_UnknownKeyAfterLearning ==
    /\ lastOp = "analyze"
    /\ lastReply = UnknownKey
    /\ profile.edit_count >= 2
    /\ profile.dimensions["formality"].confidence > 0
    /\ profile.dimensions["formality"].examples # <<>>

\* C28: a dimension's value is overwritten only by a "preference" that is a
\* string, so the value of every dimension is text in every reachable
\* profile.
C28_EveryValueIsText ==
    \A k \in DimKeys : profile.dimensions[k].value.t = "str"

\* C29: as long as no send has returned, the refiner holds no conversation:
\* a start_refinement whose model call failed leaves it uninitialized, and
\* the refine that follows raises RuntimeError.
C29_FailedStartLeavesNoConversation ==
    returnedSends = 0 => ~conversation

----------------------------------------------------------------------------
(* C26: the research parsers, checked under ResearchSpec *)

\* research on the articles the feeds gave
ResearchNext ==
    \/ \E n \in 0..MaxArticles : ResearchFetch(n)
    \/ \E reply \in ResearchReplies : ResearchAnalyze(reply)
    \/ \E reply \in ResearchReplies : ResearchPropose(reply)
    \/ ResearchNothingRelevant

ResearchSpec == Init /\ [][ResearchNext]_vars

\* C26: for a reply that is not the expected structure (a JSON object for
\* analyze, a JSON list for propose) neither call raises: analyze returns a
\* record with relevance_score 0 that carries the article's title and url,
\* propose returns the empty list.
C26_UnexpectedReplyGivesDefault ==
    /\ (researchResult.op = "analyze" /\ researchResult.reply.kind # "obj") =>
          /\ researchResult.exc = "none"
          /\ researchResult.val.kind = "obj"
          /\ researchResult.val.score = 0
          /\ researchResult.val.title = fetched[Len(analyses)].title
          /\ researchResult.val.url = fetched[Len(analyses)].url
    /\ (researchResult.op = "propose" /\ researchResult.reply.kind # "list") =>
          /\ researchResult.exc = "none"
          /\ researchResult.val = EmptyList

----------------------------------------------------------------------------
(* C22: the key check, checked under CommandSpec *)

\* commands started one after the other
CommandNext ==
    \/ \E i \in Invocations : Invoke(i)
    \/ CommandStep

CommandSpec == Init /\ [][CommandNext]_vars

\* the position of a step in a script, 0 if the script does not hold it
StepAt(script, step) ==
    IF \E n \in 1..Len(script) : script[n] = step
    THEN CHOOSE n \in 1..Len(script) :
            script[n] = step /\ \A m \in 1..(n - 1) : script[m] # step
    ELSE 0

\* the invocation is of a command that would call the model: its body holds
\* a model call, and for batch it is not a dry run and the file has topics
CallsModel(i) ==
    /\ StepAt(Script(i.name), "model") > 0
    /\ i.name = "batch" => (~i.dry_run /\ i.topics)

----------------------------------------------------------------------------
(* C21, C25, C30: publish, checked under PublishSpec *)

Keys == [anthropic_api_key : {"", "sk-ant"}]

\* drafts saved and publish run, again and again
PublishNext ==
    \/ SaveDraftRecord
    \/ \E settings \in Keys, selection \in Selections, connected \in BOOLEAN :
          PublishStart(settings, selection, connected)
    \/ \E o \in ArticleOutcomes : PublishArticle(o)
    \/ PublishCommit

PublishSpec == Init /\ [][PublishNext]_vars

\* a publish run that entered its loop has ended
RunEnded == pPc \in {"raised", "complete", "blog_raised"}

\* C21: an exception while one selected article is processed does not abort
\* the rest: when the run has ended every selected article has been taken
\* up, and every one of them but the one that failed has its record
\* committed as published.
C21_FailureDoesNotAbortTheRest ==
    RunEnded =>
        /\ handled = Len(selected)
        /\ \A n \in 1..Len(selected) :
              \/ pPc = "raised" /\ n = handled
              \/ db[selected[n]].status = "published"

\* C30: when the run has ended, every article whose post Medium accepted
\* during the run is committed with status published and the URL Medium
\* returned; none is left a draft.
C30_AcceptedPostsArePublished ==
    RunEnded =>
        \A a \in accepted :
            /\ db[a.id].status = "published"
            /\ db[a.id].medium_url = a.url

\* C25: over save-draft and publish operations a record is created with
\* status draft, a status only ever changes from draft to published, and no
\* record is deleted.
C25_DraftThenPublishedForGood ==
    [][/\ Len(db') >= Len(db)
       /\ \A id \in 1..Len(db) :
             \/ db'[id].status = db[id].status
             \/ db[id].status = "draft" /\ db'[id].status = "published"
       /\ \A id \in (Len(db) + 1)..Len(db') : db'[id].status = "draft"]_vars

\* a later publish run is in its loop on a draft saved after an earlier run
\* committed record 1 as published
C25_SecondRunAfterPublished ==
    /\ pPc = "loop"
    /\ Len(db) >= 2
    /\ db[1].status = "published"
    /\ selected = <<2>>
    /\ handled = 1

----------------------------------------------------------------------------
(* C23, C24: _regenerate_blog, checked under BlogSpec *)

\* the rows the database can hold: drafts as created, published rows with
\* the URL and the teaser publish stored
RecordKinds ==
    {NewRecord} \cup [status : {"published"}, medium_url : TypedUrls, teaser : Teasers]

Rows == UNION {[1..n -> RecordKinds] : n \in 0..MaxRecords}

IndexTexts == UNION {[1..n -> {OtherText, BlogStart, BlogEnd}] : n \in 0..MaxHtmlLen}

BlogSpecInit ==
    /\ StyleInit /\ StoreInit /\ PureInit /\ ClientInit /\ LaterInit
    /\ ResearchInit /\ CommandInit
    /\ db \in Rows
    /\ session = ClosedSession
    /\ pPc = "idle"
    /\ selected = <<>>
    /\ handled = 0
    /\ medium_client = FALSE
    /\ accepted = {}
    /\ published_count = 0
    /\ html \in {IndexHtml(text) : text \in IndexTexts} \cup {NoIndexHtml}
    /\ blogResult = BlogCalled("none", NoIndexHtml, <<>>)

BlogNext == RegenerateBlogCall

BlogSpec == BlogSpecInit /\ [][BlogNext]_vars

\* the text holds a start marker with an end marker somewhere after it
HasMarkerPair(text) ==
    \E i, j \in 1..Len(text) : i < j /\ text[i] = BlogStart /\ text[j] = BlogEnd

\* C23: called on an index.html that does not hold the full marker pair
\* (both missing, only one present, or the end before the start),
\* _regenerate_blog leaves the file as it was and warns.
C23_NoMarkerPairLeavesFileAlone ==
    (blogResult.outcome # "none" /\ blogResult.before.exists
     /\ ~HasMarkerPair(blogResult.before.text)) =>
        /\ html = blogResult.before
        /\ blogResult.outcome = "Blog markers not found"

\* the call found the end marker before the start marker, with a published
\* article to show
C23_WrongOrder ==
    /\ blogResult.outcome = "Blog markers not found"
    /\ blogResult.before = IndexHtml(<<BlogEnd, OtherText, BlogStart>>)
    /\ html = blogResult.before
    /\ PublishedIds(db) # {}

\* the positions of a token in a text
Positions(text, token) == {i \in 1..Len(text) : text[i] = token}

\* C24: called on an index.html that holds the two markers, start before
\* end, _regenerate_blog writes the file with the text up to the start
\* marker and from the end marker on as it was, and between the markers one
\* card for each record that is published with a non-empty URL and nothing
\* else.
C24_RegionReplacedByPublishedCards ==
    LET before == blogResult.before.text
        starts == Positions(before, BlogStart)
        ends == Positions(before, BlogEnd)
    IN  (/\ blogResult.outcome # "none"
         /\ blogResult.before.exists
         /\ Cardinality(starts) = 1
         /\ Cardinality(ends) = 1
         /\ \A i \in starts, j \in ends : i < j) =>
            LET s == CHOOSE i \in starts : TRUE
                e == CHOOSE j \in ends : TRUE
                published == PublishedIds(blogResult.rows)
                n == Cardinality(published)
            IN  /\ blogResult.outcome = "updated"
                /\ Len(html.text) = s + n + (Len(before) - e + 1)
                /\ SubSeq(html.text, 1, s) = SubSeq(before, 1, s)
                /\ SubSeq(html.text, s + n + 1, Len(html.text)) = SubSeq(before, e, Len(before))
                /\ \A id \in published :
                      \E i \in (s + 1)..(s + n) :
                          html.text[i] = Card(id, blogResult.rows[id])

====
